---- MODULE Spec2Model ----
(***************************************************************************)
(* A model of the philnet scraper: the two page fetchers (utils.fetch_html *)
(* and main.fetch_html), the two feature extractors                        *)
(* (utils.extract_features and main.extract_texts + extract_heuristics)    *)
(* and the batch run main().                                               *)
(*                                                                         *)
(* Three specifications share the module:                                  *)
(*   SpecFetch    one call of a fetcher against an arbitrary server,       *)
(*   SpecExtract  one call of an extractor on a (url, html) pair,          *)
(*   SpecMain     one run of main() against an arbitrary feed, arbitrary   *)
(*                page servers and an arbitrary remote dataset.            *)
(***************************************************************************)
EXTENDS Integers, Sequences, FiniteSets, TLC

VARIABLES
    \* ---- one call of fetch_html
    fetch_impl,     \* "utils" | "main": which fetch_html is called
    fetch_pc,       \* position inside the call
    response,       \* the response object: status, Content-Length header, history
    content,        \* utils.fetch_html: the bytes accumulated so far
    fetch_event,    \* what the server/network did to this fetch (the failure kind)
    fetch_result,   \* how the call ended: returned a value, or raised
    \* ---- one call of an extractor
    extract_impl,       \* "utils": extract_features; "main": extract_texts + extract_heuristics
    extract_pc,         \* position inside the call
    url,                \* the page URL
    html,               \* the HTML, or None
    skip_dom_if_large,  \* the parameter of utils.extract_features
    soup,               \* the parse tree in use, None before any parse
    parses,             \* how many times BeautifulSoup(html, ...) has run on this page
    visible_text,       \* the text returned
    features,           \* the feature record built so far
    extract_exc,        \* the exception the call raised, "none" if it did not
    \* ---- runs of main()
    pc,             \* position inside main(), "exited" after the process has ended
    attempt,        \* the loop variable of the feed retry loop
    attempts,       \* feed requests made in this run
    sleeps,         \* time.sleep(retry_delay) calls made in this run
    data,           \* the feed returned by the successful attempt
    data_attempt,   \* the attempt that assigned data, -1 before
    phish_df,       \* the DataFrame: a sequence of rows
    html_contents,  \* the results of fetch_html, one per URL
    row_parses,     \* per extracted row, how many times its HTML was parsed
    files,          \* the parquet files written in this run
    df_existing,    \* the dataset as loaded from the hub
    remote,         \* legit.parquet in the hub repository
    remote_at_start,\* remote as it was when this run started
    downloads,      \* hf_hub_download calls made in this run
    uploads,        \* upload_file calls made in this run
    pages_fetched,  \* fetch_html calls made in this run
    exit_status,    \* the exit status of the process, -1 while it runs
    unhandled,      \* the exception the __main__ guard caught, "none" if none
    runs            \* how many runs have started

fetch_vars == <<fetch_impl, fetch_pc, response, content, fetch_event, fetch_result>>
extract_vars == <<extract_impl, extract_pc, url, html, skip_dom_if_large, soup, parses,
                  visible_text, features, extract_exc>>

main_vars == <<pc, attempt, attempts, sleeps, data, data_attempt, phish_df, html_contents,
               row_parses, files, df_existing, remote, remote_at_start, downloads, uploads,
               pages_fetched, exit_status, unhandled, runs>>

vars == <<fetch_vars, extract_vars, main_vars>>

\* a step of one program leaves the others' state alone
OnlyFetch == UNCHANGED <<extract_vars, main_vars>>
OnlyExtract == UNCHANGED <<fetch_vars, main_vars>>
OnlyMain == UNCHANGED <<fetch_vars, extract_vars>>

(***************************************************************************)
(* Optional values: None is the empty sequence, Some(x) a singleton.       *)
(***************************************************************************)
None == <<>>
Some(x) == <<x>>
IsNone(o) == o = <<>>
Get(o) == o[1]

Max(a, b) == IF a >= b THEN a ELSE b
Min(a, b) == IF a <= b THEN a ELSE b

(***************************************************************************)
(* URLs and attribute values are sequences of lexemes: the maximal runs of *)
(* characters that no rule of the code splits ("http", "://", "bad", "-",  *)
(* ".", "tk", "/", "login", ...).  The empty sequence is the empty string. *)
(***************************************************************************)
RECURSIVE StrLen(_)
\* len(s)
StrLen(s) == IF s = <<>> THEN 0 ELSE Len(Head(s)) + StrLen(Tail(s))

\* s.count(t), for a one-lexeme t
CountOf(s, t) == Cardinality({i \in 1..Len(s) : s[i] = t})
\* t in s, for a one-lexeme t
HasLexeme(s, t) == \E i \in 1..Len(s) : s[i] = t

\* str.lower() on a lexeme
LowerLexeme(t) ==
    CASE t = "HTTPS" -> "https"
      [] t = "HTTP" -> "http"
      [] t = "Login" -> "login"
      [] t = "EXE" -> "exe"
      [] t = "Hello" -> "hello"
      [] OTHER -> t

\* the position of the first lexeme of s, from position from on, that is in set ts,
\* or Len(s) + 1
FirstOf(s, ts, from) ==
    LET hits == {i \in from..Len(s) : s[i] \in ts}
    IN  IF hits = {} THEN Len(s) + 1 ELSE CHOOSE i \in hits : \A j \in hits : i <= j

SubStr(s, a, b) == IF a > b THEN <<>> ELSE SubSeq(s, a, b)

SchemeLexemes == {"http", "https", "HTTP", "HTTPS", "ftp"}

(***************************************************************************)
(* urllib.parse.urlparse: scheme, netloc and query of a URL, or ValueError *)
(* when the netloc holds one of "[" and "]" without the other.             *)
(***************************************************************************)
UrlHasScheme(u) == Len(u) >= 2 /\ u[1] \in SchemeLexemes /\ u[2] = "://"
\* where the netloc starts; 0 when the URL has none (no "//" after the scheme)
NetlocStart(u) ==
    IF UrlHasScheme(u) THEN 3
    ELSE IF Len(u) >= 1 /\ u[1] = "//" THEN 2
    ELSE 0
UrlNetloc(u) ==
    IF NetlocStart(u) = 0 THEN <<>>
    ELSE SubStr(u, NetlocStart(u), FirstOf(u, {"/", "?", "#"}, NetlocStart(u)) - 1)
UrlScheme(u) == IF UrlHasScheme(u) THEN LowerLexeme(u[1]) ELSE ""
UrlQuery(u) ==
    LET q == FirstOf(u, {"?"}, 1)
        f == FirstOf(u, {"#"}, 1)
    IN  IF q > Len(u) \/ f < q THEN <<>> ELSE SubStr(u, q + 1, f - 1)
UrlParseRaises(u) ==
    HasLexeme(UrlNetloc(u), "[") # HasLexeme(UrlNetloc(u), "]")
urlparse(u) == [scheme |-> UrlScheme(u), netloc |-> UrlNetloc(u), query |-> UrlQuery(u)]

\* utils.extract_features.safe_urlparse: None instead of ValueError
safe_urlparse(u) == IF UrlParseRaises(u) THEN None ELSE Some(urlparse(u))

\* netloc.split('.'): the number of labels, and the last label
NumLabels(netloc) == CountOf(netloc, ".") + 1
LastLabel(netloc) ==
    LET dots == {i \in 1..Len(netloc) : netloc[i] = "."}
        last == IF dots = {} THEN 0 ELSE CHOOSE i \in dots : \A j \in dots : j <= i
    IN  SubStr(netloc, last + 1, Len(netloc))

\* tldextract.extract(url).suffix: the public suffix of the host, "" when the host
\* ends in none; it never raises
PublicSuffixes == {"com", "net", "org", "tk", "ml", "ga", "cf", "gq"}
TldSuffix(u) ==
    LET start == IF UrlHasScheme(u) THEN 3
                 ELSE IF Len(u) >= 1 /\ u[1] = "//" THEN 2 ELSE 1
        host == SubStr(u, start, FirstOf(u, {"/", "?", "#", ":"}, start) - 1)
        label == LastLabel(host)
    IN  IF Len(label) = 1 /\ label[1] \in PublicSuffixes THEN label[1] ELSE ""

SuspiciousWords == {"login", "verify", "secure", "update"}
SuspiciousTlds == {"tk", "ml", "ga", "cf", "gq"}
Octets == {"0", "1", "10", "168", "192"}

\* IP_ADDRESS_PATTERN.search(url): http[s]?://\d{1,3}(?:\.\d{1,3}){3}
HasIpAddress(u) ==
    \E i \in 1..Len(u) :
        /\ i + 8 <= Len(u)
        /\ u[i] \in {"http", "https"} /\ u[i + 1] = "://"
        /\ \A k \in {2, 4, 6, 8} : u[i + k] \in Octets
        /\ \A k \in {3, 5, 7} : u[i + k] = "."

\* '%' in url or URL_ENCODING_PATTERN.search(url)
UrlHasEncoding(u) == HasLexeme(u, "%")
\* url.lower().endswith('.exe')
UrlEndsWithExe(u) ==
    Len(u) >= 2 /\ u[Len(u) - 1] = "." /\ LowerLexeme(u[Len(u)]) = "exe"
HasSuspiciousWord(u) == \E i \in 1..Len(u) : LowerLexeme(u[i]) \in SuspiciousWords
BoolToInt(b) == IF b THEN 1 ELSE 0

(***************************************************************************)
(* utils.py: the size ceiling and the streaming parameters.                *)
(***************************************************************************)
MAX_SIZE_KB == 220
chunk_size == 8192
max_redirects == 3
\* max_size_kb * 1024 with the parameter at its default
Ceiling == MAX_SIZE_KB * 1024

\* the most undecodable bytes a modelled body holds
MaxInvalid == 2

(***************************************************************************)
(* HTML.  A document is its length len(html), whether html.strip() is   *)
(* empty, the elements a parser finds in it (in document order, each with  *)
(* the attributes the extractors read and its own text) and the substrings *)
(* of the raw markup the extractors search for.  An attribute that is      *)
(* absent and one that is empty are both <<>> or "": the code only tests   *)
(* their truth; onclick records presence.                                  *)
(***************************************************************************)
Tag(name) ==
    [name |-> name, src |-> <<>>, href |-> <<>>, action |-> <<>>, type |-> "",
     onclick |-> FALSE, style |-> "", width |-> "", height |-> "", text |-> <<>>]

Doc(chars, tags, markers) ==
    [chars |-> chars, blank |-> FALSE, tags |-> tags, markers |-> markers]

\* "<html><head></head><body></body></html>"
CanonicalEmptyPage == Doc(39, <<>>, {})

\* BeautifulSoup(html, parser): the parse tree, here the elements of the document
BeautifulSoup(doc) == doc.tags

RECURSIVE Decompose(_, _)
\* for tag in soup(names): tag.decompose()
Decompose(tree, names) ==
    IF tree = <<>> THEN <<>>
    ELSE IF Head(tree).name \in names THEN Decompose(Tail(tree), names)
    ELSE <<Head(tree)>> \o Decompose(Tail(tree), names)

\* soup.find_all(names)
FindAll(tree, names) == LET Hit(e) == e.name \in names IN SelectSeq(tree, Hit)
CountWhere(tree, Test(_)) == Cardinality({i \in 1..Len(tree) : Test(tree[i])})

RECURSIVE GetText(_)
\* soup.get_text(separator=" ", strip=True).split()
GetText(tree) == IF tree = <<>> THEN <<>> ELSE Head(tree).text \o GetText(Tail(tree))

\* tag.get('src') or tag.get('href')
SrcOrHref(e) == IF e.src # <<>> THEN e.src ELSE e.href

HtmlFields ==
    {"num_forms", "num_inputs", "num_links", "num_password_inputs",
     "num_hidden_inputs", "num_onclick_events", "num_hidden_elements",
     "has_iframe", "has_zero_sized_iframe", "suspicious_form_action",
     "has_script_eval", "has_network_js", "has_base64_in_js",
     "num_inline_scripts", "external_js_count", "external_iframe_count",
     "num_external_domains"}
UrlFields ==
    {"url_length", "num_dots", "has_at_symbol", "uses_https", "suspicious_words",
     "has_ip_address", "num_subdomains", "is_suspicious_tld", "has_hyphen",
     "url_has_encoding", "url_has_long_query", "url_ends_with_exe"}

\* dict.update: the keys of new replace those of old
Update(old, new) == new @@ old

js_keywords == {"fetch(", "XMLHttpRequest", "navigator.sendBeacon", "new WebSocket"}
HiddenStyles == {"display:none", "visibility:hidden"}

\* the long-query limit of url_has_long_query
LongQuery == 100
\* extract_features: max_tokens and MAX_CHARS
max_tokens == 512
MAX_CHARS == 20000

(***************************************************************************)
(* utils.extract_features                                                  *)
(***************************************************************************)
\* domain = parsed.netloc if parsed else ''
UtilsDomain(u) == IF IsNone(safe_urlparse(u)) THEN <<>> ELSE Get(safe_urlparse(u)).netloc

\* the URL-based features
UtilsUrlFeatures(u) ==
    LET parsed == safe_urlparse(u)
        domain == UtilsDomain(u)
    IN  [url_length |-> StrLen(u),
         num_dots |-> CountOf(u, "."),
         has_at_symbol |-> HasLexeme(u, "@"),
         uses_https |-> IF IsNone(parsed) THEN FALSE ELSE Get(parsed).scheme = "https",
         suspicious_words |-> BoolToInt(HasSuspiciousWord(u)),
         has_ip_address |-> HasIpAddress(u),
         num_subdomains |-> IF domain # <<>> THEN Max(0, NumLabels(domain) - 2) ELSE 0,
         is_suspicious_tld |-> TldSuffix(u) \in SuspiciousTlds,
         has_hyphen |-> HasLexeme(domain, "-"),
         url_has_encoding |-> UrlHasEncoding(u),
         url_has_long_query |->
             IF IsNone(parsed) THEN FALSE ELSE StrLen(Get(parsed).query) > LongQuery,
         url_ends_with_exe |-> UrlEndsWithExe(u)]

\* the update of the two fallback branches (no HTML; HTML above the ceiling)
HtmlDefaults ==
    [num_forms |-> 0, num_inputs |-> 0, num_links |-> 0,
     num_password_inputs |-> 0, num_hidden_inputs |-> 0,
     num_onclick_events |-> 0, num_hidden_elements |-> 0,
     has_iframe |-> FALSE, has_zero_sized_iframe |-> FALSE,
     suspicious_form_action |-> FALSE, has_script_eval |-> FALSE,
     has_network_js |-> FALSE, has_base64_in_js |-> FALSE,
     num_inline_scripts |-> 0, external_js_count |-> 0,
     external_iframe_count |-> 0, num_external_domains |-> 0]
UtilsNoHtmlUpdate == HtmlDefaults
UtilsLargeHtmlUpdate == HtmlDefaults

\* html is None or not html.strip()
UtilsNoHtml(h) == IF IsNone(h) THEN TRUE ELSE Get(h).blank
\* skip_dom_if_large and len(html) > 1024 * max_size_kb
UtilsTooLarge(h, skip) == skip /\ Get(h).chars > Ceiling

\* the cleaning of the text: lower-cased, the characters outside [\w\s.,!?-] removed
\* (a word of such characters only disappears)
Symbols == {"(c)", "<3"}
RECURSIVE CleanText(_)
CleanText(words) ==
    IF words = <<>> THEN <<>>
    ELSE IF Head(words) \in Symbols THEN CleanText(Tail(words))
    ELSE <<LowerLexeme(Head(words))>> \o CleanText(Tail(words))

\* len(" ".join(tokens))
JoinedLen(tokens) == IF tokens = <<>> THEN 0 ELSE StrLen(tokens) + Len(tokens) - 1
\* " ".join(tokens)[:n], to the last whole token
RECURSIVE TakeChars(_, _)
TakeChars(tokens, n) ==
    IF JoinedLen(tokens) <= n THEN tokens
    ELSE TakeChars(SubStr(tokens, 1, Len(tokens) - 1), n)

\* the visible text of the parse tree
UtilsVisibleText(tree) ==
    LET tokens == CleanText(GetText(tree))
    IN  TakeChars(SubStr(tokens, 1, Min(Len(tokens), max_tokens)), MAX_CHARS)

\* the elements whose src or href the external_domains comprehension parses
UtilsLinked(tree) ==
    LET Hit(e) == e.name \in {"script", "link", "img", "iframe"} /\ SrcOrHref(e) # <<>>
    IN  SelectSeq(tree, Hit)

\* external_domains calls safe_urlparse(...).netloc with no test for None
UtilsDomFeaturesRaises(tree) ==
    \E i \in 1..Len(UtilsLinked(tree)) :
        IsNone(safe_urlparse(SrcOrHref(UtilsLinked(tree)[i])))

\* x and safe_urlparse(x) and safe_urlparse(x).netloc != domain
UtilsExternal(x, domain) ==
    /\ x # <<>>
    /\ ~IsNone(safe_urlparse(x))
    /\ Get(safe_urlparse(x)).netloc # domain

\* the DOM-based features, from the one parse tree and the raw markup
UtilsDomFeatures(tree, doc, domain) ==
    LET forms == FindAll(tree, {"form"})
        inputs == FindAll(tree, {"input"})
        links == FindAll(tree, {"a"})
        iframes == FindAll(tree, {"iframe"})
        script_tags == FindAll(tree, {"script"})
        linked == UtilsLinked(tree)
        external_domains ==
            {Get(safe_urlparse(SrcOrHref(linked[i]))).netloc :
                i \in {j \in 1..Len(linked) :
                         Get(safe_urlparse(SrcOrHref(linked[j]))).netloc # domain}}
        IsPassword(e) == e.type = "password"
        IsHidden(e) == e.type = "hidden"
        HasOnclick(e) == e.onclick
        HiddenStyle(e) == e.style \in HiddenStyles
        ZeroSized(e) == e.width \in {"0", "1"} \/ e.height \in {"0", "1"}
        ActionAway(e) ==
            /\ e.action # <<>>
            /\ ~IsNone(safe_urlparse(e.action))
            /\ Get(safe_urlparse(e.action)).netloc \notin {<<>>, domain}
        Inline(e) == e.src = <<>>
        SrcAway(e) == UtilsExternal(e.src, domain)
    IN  [num_forms |-> Len(forms),
         num_inputs |-> Len(inputs),
         num_links |-> Len(links),
         num_password_inputs |-> CountWhere(inputs, IsPassword),
         num_hidden_inputs |-> CountWhere(inputs, IsHidden),
         num_onclick_events |-> CountWhere(tree, HasOnclick),
         num_hidden_elements |-> CountWhere(tree, HiddenStyle),
         has_iframe |-> iframes # <<>>,
         has_zero_sized_iframe |-> CountWhere(iframes, ZeroSized) > 0,
         suspicious_form_action |-> CountWhere(forms, ActionAway) > 0,
         has_script_eval |-> "eval(" \in doc.markers,
         has_network_js |-> doc.markers \cap js_keywords # {},
         has_base64_in_js |-> "base64," \in doc.markers,
         num_inline_scripts |-> CountWhere(script_tags, Inline),
         external_js_count |-> CountWhere(script_tags, SrcAway),
         external_iframe_count |-> CountWhere(iframes, SrcAway),
         num_external_domains |-> Cardinality(external_domains)]

(***************************************************************************)
(* main.extract_texts and main.extract_heuristics                          *)
(***************************************************************************)
\* if html: (neither None nor the empty string)
Truthy(h) == ~IsNone(h) /\ Get(h).chars > 0

\* extract_texts: "" for None, else the text of a parse of its own (lxml) without
\* the script and style elements
extract_texts(h) ==
    IF IsNone(h) THEN [visible_text |-> <<>>, parses |-> 0]
    ELSE [visible_text |-> GetText(Decompose(BeautifulSoup(Get(h)), {"script", "style"})),
          parses |-> 1]

\* the URL features of extract_heuristics; urlparse(url) is called bare
MainUrlFeatures(u) ==
    LET parsed == urlparse(u)
    IN  [url_length |-> StrLen(u),
         num_dots |-> CountOf(u, "."),
         has_at_symbol |-> HasLexeme(u, "@"),
         uses_https |-> parsed.scheme = "https",
         suspicious_words |-> BoolToInt(HasSuspiciousWord(u)),
         has_ip_address |-> HasIpAddress(u),
         num_subdomains |-> NumLabels(parsed.netloc) - 2,
         is_suspicious_tld |->
             \E t \in SuspiciousTlds : LastLabel(parsed.netloc) = <<t>>,
         has_hyphen |-> HasLexeme(parsed.netloc, "-"),
         url_has_encoding |-> UrlHasEncoding(u),
         url_has_long_query |-> StrLen(parsed.query) > LongQuery,
         url_ends_with_exe |-> UrlEndsWithExe(u)]

\* the attribute values extract_heuristics hands to urlparse, each called bare
MainParsedAttributes(tree) ==
    {SrcOrHref(tree[i]) : i \in {j \in 1..Len(tree) :
        tree[j].name \in {"script", "link", "img", "iframe"} /\ SrcOrHref(tree[j]) # <<>>}}
    \cup {tree[i].action : i \in {j \in 1..Len(tree) :
        tree[j].name = "form" /\ tree[j].action # <<>>}}
    \cup {tree[i].src : i \in {j \in 1..Len(tree) :
        tree[j].name \in {"script", "iframe"} /\ tree[j].src # <<>>}}

MainDomFeaturesRaises(tree) == \E x \in MainParsedAttributes(tree) : UrlParseRaises(x)

\* the features of the if html: branch, from a second parse (html.parser)
MainDomFeatures(tree, doc, domain) ==
    LET forms == FindAll(tree, {"form"})
        inputs == FindAll(tree, {"input"})
        iframes == FindAll(tree, {"iframe"})
        script_tags == FindAll(tree, {"script"})
        linked == FindAll(tree, {"script", "link", "img", "iframe"})
        external_domains ==
            {urlparse(SrcOrHref(linked[i])).netloc :
                i \in {j \in 1..Len(linked) :
                         /\ SrcOrHref(linked[j]) # <<>>
                         /\ urlparse(SrcOrHref(linked[j])).netloc # <<>>
                         /\ urlparse(SrcOrHref(linked[j])).netloc # domain}}
        IsPassword(e) == e.type = "password"
        IsHidden(e) == e.type = "hidden"
        HasOnclick(e) == e.onclick
        HiddenStyle(e) == e.style \in HiddenStyles
        ZeroSized(e) == e.width \in {"0", "1"} \/ e.height \in {"0", "1"}
        ActionAway(e) ==
            e.action # <<>> /\ urlparse(e.action).netloc \notin {<<>>, domain}
        Inline(e) == e.src = <<>>
        SrcAway(e) == e.src # <<>> /\ urlparse(e.src).netloc # domain
    IN  [num_forms |-> Len(forms),
         num_inputs |-> Len(inputs),
         num_links |-> Len(FindAll(tree, {"a"})),
         num_password_inputs |-> CountWhere(inputs, IsPassword),
         num_hidden_inputs |-> CountWhere(inputs, IsHidden),
         num_onclick_events |-> CountWhere(tree, HasOnclick),
         num_hidden_elements |-> CountWhere(tree, HiddenStyle),
         has_iframe |-> iframes # <<>>,
         has_zero_sized_iframe |-> CountWhere(iframes, ZeroSized) > 0,
         suspicious_form_action |-> CountWhere(forms, ActionAway) > 0,
         has_script_eval |-> "eval(" \in doc.markers,
         has_network_js |-> doc.markers \cap js_keywords # {},
         has_base64_in_js |-> "base64," \in doc.markers,
         num_inline_scripts |-> CountWhere(script_tags, Inline),
         external_js_count |-> CountWhere(script_tags, SrcAway),
         external_iframe_count |-> CountWhere(iframes, SrcAway),
         num_external_domains |-> Cardinality(external_domains)]

\* the features of a call that raised
NoFeatures == [raised |-> TRUE]

\* extract_heuristics(row): the features, or the exception the call raises
extract_heuristics(u, h) ==
    IF UrlParseRaises(u)
    THEN [exc |-> "ValueError", features |-> NoFeatures, parses |-> 0]
    ELSE IF ~Truthy(h)
    THEN [exc |-> "none", features |-> Update(MainUrlFeatures(u), HtmlDefaults),
          parses |-> 0]
    ELSE IF MainDomFeaturesRaises(BeautifulSoup(Get(h)))
    THEN [exc |-> "ValueError", features |-> NoFeatures, parses |-> 1]
    ELSE [exc |-> "none",
          features |-> Update(MainUrlFeatures(u),
                              MainDomFeatures(BeautifulSoup(Get(h)), Get(h),
                                              urlparse(u).netloc)),
          parses |-> 1]

(***************************************************************************)
(* The inputs of the extractors: page URLs, attribute values, documents.   *)
(***************************************************************************)
LongValue ==
    "aaaaaaaaaaaaaaaaaaaaaaaaaaaaaaaaaaaaaaaaaaaaaaaaaaaaaaaaaaaaaaaaaaaaaaaaaaaaaaaaaaaaaaaaaaaaaaaaaaaaa"
\* http://bad-example.tk/login
UrlPhish == <<"http", "://", "bad", "-", "example", ".", "tk", "/", "login">>
\* https://www.example.com/
UrlPlain == <<"https", "://", "www", ".", "example", ".", "com", "/">>
\* http://192.168.0.1/update.EXE
UrlIp == <<"http", "://", "192", ".", "168", ".", "0", ".", "1", "/", "update", ".", "EXE">>
\* http://[example.com/x : urlparse raises ValueError (Invalid IPv6 URL)
UrlMalformed == <<"http", "://", "[", "example", ".", "com", "/", "x">>
\* example.ml/a@b?q=%20aaa...a : no scheme, a long query
UrlBare == <<"example", ".", "ml", "/", "a", "@", "b", "?", "q", "=", "%", "20", LongValue>>
Urls == {UrlPhish, UrlPlain, UrlIp, UrlMalformed, UrlBare}

AttrAway == <<"http", "://", "other", ".", "com", "/", "x">>
AttrSame == <<"http", "://", "bad", "-", "example", ".", "tk", "/", "s", ".", "js">>
AttrRelative == <<"/", "submit">>
AttrMalformed == <<"http", "://", "[", "x">>

FormAway == [Tag("form") EXCEPT !.action = AttrAway, !.text = <<"Hello", "(c)", "bank">>]
FormMalformed == [Tag("form") EXCEPT !.action = AttrMalformed]
InputPassword == [Tag("input") EXCEPT !.type = "password"]
InputHidden == [Tag("input") EXCEPT !.type = "hidden", !.style = "display:none"]
LinkTag == [Tag("a") EXCEPT !.href = AttrRelative, !.onclick = TRUE, !.text = <<"Login">>]
ScriptInline == [Tag("script") EXCEPT !.text = <<"eval(", "x", ")">>]
ScriptAway == [Tag("script") EXCEPT !.src = AttrAway]
IframeZero == [Tag("iframe") EXCEPT !.src = AttrAway, !.width = "0"]
ImgSame == [Tag("img") EXCEPT !.src = AttrSame]
ImgMalformed == [Tag("img") EXCEPT !.src = AttrMalformed]
NoScript == [Tag("noscript") EXCEPT !.text = <<"enable", "javascript">>]

PageTags == <<FormAway, InputPassword, InputHidden, LinkTag, ScriptInline, ScriptAway,
              IframeZero, ImgSame, NoScript>>
PageMarkers == {"eval(", "fetch(", "base64,"}

\* the size of an ordinary page in the inputs
PageChars == 6500

Htmls ==
    {None,
     Some([Doc(0, <<>>, {}) EXCEPT !.blank = TRUE]),
     Some([Doc(3, <<>>, {}) EXCEPT !.blank = TRUE]),
     Some(CanonicalEmptyPage),
     Some(Doc(PageChars, PageTags, PageMarkers)),
     Some(Doc(PageChars, <<InputPassword, ImgMalformed>>, {})),
     Some(Doc(PageChars, <<FormMalformed, LinkTag>>, {})),
     Some(Doc(Ceiling, PageTags, PageMarkers)),
     Some(Doc(Ceiling + 1, PageTags, PageMarkers))}

(***************************************************************************)
(* The exceptions the libraries raise.  httpx: TooManyRedirects, the       *)
(* transport errors and DecodingError derive from RequestError;            *)
(* HTTPStatusError (raise_for_status) derives from HTTPError only.         *)
(* requests: every one of its exceptions derives from RequestException.    *)
(***************************************************************************)
HttpxTransportErrors == {"ConnectError", "ConnectTimeout", "ReadTimeout", "ReadError"}
HttpxRequestError == HttpxTransportErrors \cup {"TooManyRedirects", "DecodingError"}
RequestsRequestException == {"ConnectionError", "Timeout", "TooManyRedirects", "HTTPError"}

Returned(v) == [kind |-> "returned", html |-> v, exc |-> "none"]
Raised(e) == [kind |-> "raised", html |-> None, exc |-> e]
Pending == [kind |-> "pending", html |-> None, exc |-> "none"]

\* utils.fetch_html, the two except clauses: what the call does with exception e
UtilsExcept(e) ==
    IF e = "TooManyRedirects" THEN Returned(None)
    ELSE IF e \in HttpxRequestError THEN Returned(None)
    ELSE Raised(e)

\* main.fetch_html, its except clause
MainExcept(e) ==
    IF e \in RequestsRequestException THEN Returned(None) ELSE Raised(e)

\* response.raise_for_status(): 4xx and 5xx raise
IsErrorStatus(status) == status >= 400

\* content.decode(errors="ignore"): undecodable bytes are dropped
Decode(c) == [chars |-> c.len - c.invalid]

NoResponse == [status |-> 0, content_length |-> None, history |-> 0]
EmptyContent == [len |-> 0, invalid |-> 0]

\* the status codes, declared lengths and body sizes the servers answer with
Statuses == {200, 404, 503}
DeclaredLengths == {None, Some(0), Some(Ceiling), Some(Ceiling + 1), Some(2 * Ceiling)}
BodySizes == {0, 1, 39, 6000, 6001, Ceiling, Ceiling + 1}
\* the last chunk of a body may be shorter than chunk_size
PartialSizes == {1, chunk_size \div 2, chunk_size - 1}

FetchInit ==
    /\ fetch_impl \in {"utils", "main"}
    /\ fetch_pc = "request"
    /\ response = NoResponse
    /\ content = EmptyContent
    /\ fetch_event = "ok"
    /\ fetch_result = Pending

FetchIdle ==
    /\ fetch_impl = "utils"
    /\ fetch_pc = "idle"
    /\ response = NoResponse
    /\ content = EmptyContent
    /\ fetch_event = "ok"
    /\ fetch_result = Pending

ExtractIdle ==
    /\ extract_impl = "utils"
    /\ extract_pc = "idle"
    /\ url = <<>>
    /\ html = None
    /\ skip_dom_if_large = TRUE
    /\ soup = None
    /\ parses = 0
    /\ visible_text = <<>>
    /\ features = NoFeatures
    /\ extract_exc = "none"

MainIdle ==
    /\ pc = "idle"
    /\ attempt = 0
    /\ attempts = 0
    /\ sleeps = 0
    /\ data = <<>>
    /\ data_attempt = -1
    /\ phish_df = <<>>
    /\ html_contents = <<>>
    /\ row_parses = <<>>
    /\ files = {}
    /\ df_existing = <<>>
    /\ remote = <<>>
    /\ remote_at_start = <<>>
    /\ downloads = 0
    /\ uploads = 0
    /\ pages_fetched = 0
    /\ exit_status = -1
    /\ unhandled = "none"
    /\ runs = 0

FetchEnds(event, result) ==
    /\ fetch_pc' = "done"
    /\ fetch_event' = event
    /\ fetch_result' = result

(***************************************************************************)
(* utils.fetch_html                                                        *)
(***************************************************************************)
\* client.stream("GET", ...) fails before a response: a transport error
UtilsRequestFails ==
    /\ fetch_impl = "utils" /\ fetch_pc = "request"
    /\ \E e \in {"ConnectError", "ConnectTimeout"} :
          FetchEnds("request_error", UtilsExcept(e))
    /\ UNCHANGED <<fetch_impl, response, content>>
    /\ OnlyFetch

\* the server redirects more than max_redirects times
UtilsTooManyRedirects ==
    /\ fetch_impl = "utils" /\ fetch_pc = "request"
    /\ FetchEnds("too_many_redirects", UtilsExcept("TooManyRedirects"))
    /\ UNCHANGED <<fetch_impl, response, content>>
    /\ OnlyFetch

\* the response headers arrive, after at most max_redirects redirects
UtilsResponseArrives ==
    /\ fetch_impl = "utils" /\ fetch_pc = "request"
    /\ \E s \in Statuses, cl \in DeclaredLengths, n \in 0..max_redirects :
          response' = [status |-> s, content_length |-> cl, history |-> n]
    /\ fetch_pc' = "raise_for_status"
    /\ UNCHANGED <<fetch_impl, content, fetch_event, fetch_result>>
    /\ OnlyFetch

\* response.raise_for_status()
UtilsRaiseForStatus ==
    /\ fetch_impl = "utils" /\ fetch_pc = "raise_for_status"
    /\ \/ /\ IsErrorStatus(response.status)
          /\ FetchEnds("bad_status", UtilsExcept("HTTPStatusError"))
       \/ /\ ~IsErrorStatus(response.status)
          /\ fetch_pc' = "content_length"
          /\ UNCHANGED <<fetch_event, fetch_result>>
    /\ UNCHANGED <<fetch_impl, response, content>>
    /\ OnlyFetch

\* the early exit on a Content-Length above the ceiling
ContentLengthTooLarge(resp) ==
    /\ ~IsNone(resp.content_length)
    /\ Get(resp.content_length) > Ceiling

UtilsCheckContentLength ==
    /\ fetch_impl = "utils" /\ fetch_pc = "content_length"
    /\ \/ /\ ContentLengthTooLarge(response)
          /\ FetchEnds("oversized", Returned(None))
       \/ /\ ~ContentLengthTooLarge(response)
          /\ fetch_pc' = "stream"
          /\ UNCHANGED <<fetch_event, fetch_result>>
    /\ UNCHANGED <<fetch_impl, response, content>>
    /\ OnlyFetch

\* the loop body after content += chunk: c is the content with the chunk added,
\* slow says whether time.time() - start > 3 by now, last whether the body ends here
AfterChunk(c, slow, last) ==
    /\ content' = c
    /\ IF c.len > Ceiling
       THEN FetchEnds("oversized", Returned(Some(Decode(c))))
       ELSE IF slow
       THEN FetchEnds("timeout", Returned(Some(Decode(c))))
       ELSE /\ fetch_pc' = IF last THEN "stream_end" ELSE "stream"
            /\ UNCHANGED <<fetch_event, fetch_result>>

\* one full chunk of chunk_size bytes arrives
UtilsReadChunk ==
    /\ fetch_impl = "utils" /\ fetch_pc = "stream"
    /\ \E bad \in 0..Min(1, MaxInvalid - content.invalid), slow \in BOOLEAN :
          AfterChunk([len |-> content.len + chunk_size,
                      invalid |-> content.invalid + bad], slow, FALSE)
    /\ UNCHANGED <<fetch_impl, response>>
    /\ OnlyFetch

\* the last, shorter chunk of the body arrives
UtilsReadLastChunk ==
    /\ fetch_impl = "utils" /\ fetch_pc = "stream"
    /\ \E n \in PartialSizes, bad \in 0..Min(1, MaxInvalid - content.invalid),
          slow \in BOOLEAN :
          AfterChunk([len |-> content.len + n,
                      invalid |-> content.invalid + bad], slow, TRUE)
    /\ UNCHANGED <<fetch_impl, response>>
    /\ OnlyFetch

\* the body ends: the loop is over, the decoded content is returned
UtilsStreamEnds ==
    /\ fetch_impl = "utils" /\ fetch_pc \in {"stream", "stream_end"}
    /\ FetchEnds("ok", Returned(Some(Decode(content))))
    /\ UNCHANGED <<fetch_impl, response, content>>
    /\ OnlyFetch

\* reading the body fails: the read timeout of 3 s, or a broken connection
UtilsReadFails ==
    /\ fetch_impl = "utils" /\ fetch_pc = "stream"
    /\ \E e \in {"ReadTimeout", "ReadError"} :
          FetchEnds(IF e = "ReadTimeout" THEN "timeout" ELSE "request_error",
                    UtilsExcept(e))
    /\ UNCHANGED <<fetch_impl, response, content>>
    /\ OnlyFetch

(***************************************************************************)
(* main.fetch_html: requests.get, raise_for_status, response.text          *)
(***************************************************************************)
MainFetchFails ==
    /\ fetch_impl = "main" /\ fetch_pc = "request"
    /\ \E e \in {"ConnectionError", "Timeout", "TooManyRedirects"} :
          FetchEnds(CASE e = "ConnectionError" -> "request_error"
                      [] e = "Timeout" -> "timeout"
                      [] OTHER -> "too_many_redirects",
                    MainExcept(e))
    /\ UNCHANGED <<fetch_impl, response, content>>
    /\ OnlyFetch

MainFetchResponds ==
    /\ fetch_impl = "main" /\ fetch_pc = "request"
    /\ \E s \in Statuses, n \in BodySizes :
          /\ response' = [status |-> s, content_length |-> Some(n), history |-> 0]
          /\ content' = [len |-> n, invalid |-> 0]
          /\ IF IsErrorStatus(s)
             THEN FetchEnds("bad_status", MainExcept("HTTPError"))
             ELSE FetchEnds("ok", Returned(Some([chars |-> n])))
    /\ UNCHANGED fetch_impl
    /\ OnlyFetch

FetchNext ==
    \/ UtilsRequestFails
    \/ UtilsTooManyRedirects
    \/ UtilsResponseArrives
    \/ UtilsRaiseForStatus
    \/ UtilsCheckContentLength
    \/ UtilsReadChunk
    \/ UtilsReadLastChunk
    \/ UtilsStreamEnds
    \/ UtilsReadFails
    \/ MainFetchFails
    \/ MainFetchResponds

InitFetch == FetchInit /\ ExtractIdle /\ MainIdle

SpecFetch == InitFetch /\ [][FetchNext]_vars

(***************************************************************************)
(* One call of an extractor, step by step.                                 *)
(***************************************************************************)
ExtractInit ==
    /\ extract_impl \in {"utils", "main"}
    /\ extract_pc = "start"
    /\ url \in Urls
    /\ html \in Htmls
    /\ skip_dom_if_large \in BOOLEAN
    /\ soup = None
    /\ parses = 0
    /\ visible_text = <<>>
    /\ features = NoFeatures
    /\ extract_exc = "none"

\* utils.extract_features: the URL-based features
UtilsExtractUrlFeatures ==
    /\ extract_impl = "utils" /\ extract_pc = "start"
    /\ features' = UtilsUrlFeatures(url)
    /\ extract_pc' = "html"
    /\ UNCHANGED <<extract_impl, url, html, skip_dom_if_large, soup, parses,
                   visible_text, extract_exc>>
    /\ OnlyExtract

\* the fallback for no HTML: return "", heuristic_features
UtilsExtractNoHtml ==
    /\ extract_impl = "utils" /\ extract_pc = "html"
    /\ UtilsNoHtml(html)
    /\ features' = Update(features, UtilsNoHtmlUpdate)
    /\ visible_text' = <<>>
    /\ extract_pc' = "done"
    /\ UNCHANGED <<extract_impl, url, html, skip_dom_if_large, soup, parses, extract_exc>>
    /\ OnlyExtract

\* the skip of DOM parsing for a huge page: return "", heuristic_features
UtilsExtractSkipLarge ==
    /\ extract_impl = "utils" /\ extract_pc = "html"
    /\ ~UtilsNoHtml(html)
    /\ UtilsTooLarge(html, skip_dom_if_large)
    /\ features' = Update(features, UtilsLargeHtmlUpdate)
    /\ visible_text' = <<>>
    /\ extract_pc' = "done"
    /\ UNCHANGED <<extract_impl, url, html, skip_dom_if_large, soup, parses, extract_exc>>
    /\ OnlyExtract

\* soup = BeautifulSoup(html, "lxml"), script, style and noscript decomposed,
\* and the text taken from it
UtilsExtractParse ==
    /\ extract_impl = "utils" /\ extract_pc = "html"
    /\ ~UtilsNoHtml(html)
    /\ ~UtilsTooLarge(html, skip_dom_if_large)
    /\ soup' = Some(Decompose(BeautifulSoup(Get(html)), {"script", "style", "noscript"}))
    /\ parses' = parses + 1
    /\ visible_text' = UtilsVisibleText(Get(soup'))
    /\ extract_pc' = "dom"
    /\ UNCHANGED <<extract_impl, url, html, skip_dom_if_large, features, extract_exc>>
    /\ OnlyExtract

\* the DOM-based features, from soup; the call returns or raises
UtilsExtractDomFeatures ==
    /\ extract_impl = "utils" /\ extract_pc = "dom"
    /\ \/ /\ UtilsDomFeaturesRaises(Get(soup))
          /\ extract_exc' = "AttributeError"
          /\ features' = NoFeatures
          /\ visible_text' = <<>>
       \/ /\ ~UtilsDomFeaturesRaises(Get(soup))
          /\ features' = Update(features,
                                UtilsDomFeatures(Get(soup), Get(html), UtilsDomain(url)))
          /\ UNCHANGED <<extract_exc, visible_text>>
    /\ extract_pc' = "done"
    /\ UNCHANGED <<extract_impl, url, html, skip_dom_if_large, soup, parses>>
    /\ OnlyExtract

\* main(): phish_df['html_content'].apply(extract_texts), for this row
MainExtractTexts ==
    /\ extract_impl = "main" /\ extract_pc = "start"
    /\ visible_text' = extract_texts(html).visible_text
    /\ parses' = parses + extract_texts(html).parses
    /\ soup' = IF IsNone(html) THEN None
               ELSE Some(Decompose(BeautifulSoup(Get(html)), {"script", "style"}))
    /\ extract_pc' = "heuristics"
    /\ UNCHANGED <<extract_impl, url, html, skip_dom_if_large, features, extract_exc>>
    /\ OnlyExtract

\* main(): phish_df.apply(extract_heuristics, axis=1), for this row
MainExtractHeuristics ==
    /\ extract_impl = "main" /\ extract_pc = "heuristics"
    /\ LET r == extract_heuristics(url, html)
       IN  /\ extract_exc' = r.exc
           /\ features' = r.features
           /\ parses' = parses + r.parses
           /\ soup' = IF r.parses = 0 THEN soup ELSE Some(BeautifulSoup(Get(html)))
           /\ visible_text' = IF r.exc = "none" THEN visible_text ELSE <<>>
    /\ extract_pc' = "done"
    /\ UNCHANGED <<extract_impl, url, html, skip_dom_if_large>>
    /\ OnlyExtract

ExtractNext ==
    \/ UtilsExtractUrlFeatures
    \/ UtilsExtractNoHtml
    \/ UtilsExtractSkipLarge
    \/ UtilsExtractParse
    \/ UtilsExtractDomFeatures
    \/ MainExtractTexts
    \/ MainExtractHeuristics

InitExtract == ExtractInit /\ FetchIdle /\ MainIdle

SpecExtract == InitExtract /\ [][ExtractNext]_vars

(***************************************************************************)
(* main(): the batch run.                                                  *)
(***************************************************************************)
max_retries == 5
\* the minimum html_length of the quality filter
MinHtmlLength == 6000
\* the feeds hold at most MaxFeed records; at most MaxRuns runs are started
MaxFeed == 2
MaxRuns == 2

\* datetime.utcnow().strftime('%Y-%m-%d'), and the day before
Today == "2024-01-01"
Yesterday == "2023-12-31"

Record(u, date, verified, online) ==
    [url |-> u, verification_time |-> <<date, "10:00:00">>, verified |-> verified,
     online |-> online, target |-> "Other"]

\* the records a feed may hold
Candidates ==
    {Record(UrlPhish, Today, "yes", "yes"),
     Record(UrlMalformed, Today, "yes", "yes"),
     Record(UrlPlain, Yesterday, "yes", "yes"),
     Record(UrlPlain, Today, "no", "yes"),
     Record(UrlPlain, Today, "yes", "no")}

\* response.json(): a list of distinct records
Feeds ==
    {f \in UNION {[1..n -> Candidates] : n \in 0..MaxFeed} :
        \A i, j \in 1..Len(f) : i # j => f[i] # f[j]}

\* what main.fetch_html returns for a page: None, or response.text
FetchedPages ==
    {None,
     Some(Doc(0, <<>>, {})),
     Some(CanonicalEmptyPage),
     Some(Doc(MinHtmlLength, PageTags, PageMarkers)),
     Some(Doc(MinHtmlLength + 1, <<InputPassword>>, {})),
     Some(Doc(PageChars, PageTags, PageMarkers))}

\* the rows of df for which Test holds, in order
Filter(df, Test(_)) == SelectSeq(df, Test)

\* verification_time.astype(str).str.split('T').str[0]
VerificationDate(r) == r.verification_time[1]

\* the filter to today's verified, online records
IsTodaysPhishAnyDate(r) == r.verified = "yes" /\ r.online = "yes"
IsTodaysPhish(r) ==
    /\ VerificationDate(r) = Today
    /\ r.verified = "yes"
    /\ r.online = "yes"

\* [['url', 'verification_time', 'target']].reset_index(drop=True)
DateFiltered(df) ==
    LET kept == Filter(df, IsTodaysPhish)
    IN  [i \in 1..Len(kept) |->
            [idx |-> i, url |-> kept[i].url,
             verification_time |-> kept[i].verification_time, target |-> kept[i].target]]

\* html_content, html_length, fetch_status and fetch_date of a row
Fetched(row, h) ==
    [idx |-> row.idx, url |-> row.url, html_content |-> h,
     html_length |-> IF IsNone(h) THEN 0 ELSE Get(h).chars,
     fetch_status |-> IF Truthy(h) THEN "success" ELSE "failed",
     fetch_date |-> Today]

\* the filter of invalid sites
IsValidSiteAtThreshold(row) ==
    /\ row.fetch_status = "success"
    /\ row.html_content # Some(CanonicalEmptyPage)
    /\ row.html_length >= MinHtmlLength
IsValidSite(row) ==
    /\ row.fetch_status = "success"
    /\ row.html_content # Some(CanonicalEmptyPage)
    /\ row.html_length > MinHtmlLength

\* a row of the output: url, visible_text, the heuristic features, result
OutputRow(row) ==
    [url |-> row.url, visible_text |-> extract_texts(row.html_content).visible_text,
     result |-> 1]
    @@ extract_heuristics(row.url, row.html_content).features

\* pd.concat([df_existing, phish_df], ignore_index=True)
Combined(existing, new) == existing \o new

\* sys.exit(code), or an exception reaching the guard of __main__, which prints it:
\* the process then ends with status 0
Exits(code, exc) ==
    /\ pc' = "exited"
    /\ exit_status' = code
    /\ unhandled' = exc

MainStart(r) ==
    /\ pc = "feed"
    /\ attempt = 0
    /\ attempts = 0
    /\ sleeps = 0
    /\ data = <<>>
    /\ data_attempt = -1
    /\ phish_df = <<>>
    /\ html_contents = <<>>
    /\ row_parses = <<>>
    /\ files = {}
    /\ df_existing = <<>>
    /\ remote = r
    /\ remote_at_start = r
    /\ downloads = 0
    /\ uploads = 0
    /\ pages_fetched = 0
    /\ exit_status = -1
    /\ unhandled = "none"

MainInit == MainStart(<<>>) /\ runs = 1

\* whether the failed attempt was the last one: not (attempt < max_retries - 1)
IsLastAttemptLate(a) == ~(a < max_retries)
IsLastAttempt(a) == ~(a < max_retries - 1)

\* an attempt of the retry loop succeeds: data = response.json(); break
MainFeedSucceeds ==
    /\ pc = "feed" /\ attempt < max_retries
    /\ attempts' = attempts + 1
    /\ \E f \in Feeds : data' = f
    /\ data_attempt' = attempt
    /\ pc' = "convert"
    /\ UNCHANGED <<attempt, sleeps, phish_df, html_contents, row_parses, files,
                   df_existing, remote, remote_at_start, downloads, uploads,
                   pages_fetched, exit_status, unhandled, runs>>
    /\ OnlyMain

\* an attempt fails (request error, bad status, bad JSON): sleep, or exit 1 after
\* the last attempt
MainFeedFails ==
    /\ pc = "feed" /\ attempt < max_retries
    /\ attempts' = attempts + 1
    /\ IF IsLastAttempt(attempt)
       THEN /\ Exits(1, "none")
            /\ UNCHANGED sleeps
       ELSE /\ pc' = "sleep"
            /\ sleeps' = sleeps + 1
            /\ UNCHANGED <<exit_status, unhandled>>
    /\ UNCHANGED <<attempt, data, data_attempt, phish_df, html_contents, row_parses,
                   files, df_existing, remote, remote_at_start, downloads, uploads,
                   pages_fetched, runs>>
    /\ OnlyMain

\* time.sleep(retry_delay) returns: the next attempt
MainSleepEnds ==
    /\ pc = "sleep"
    /\ attempt' = attempt + 1
    /\ pc' = "feed"
    /\ UNCHANGED <<attempts, sleeps, data, data_attempt, phish_df, html_contents,
                   row_parses, files, df_existing, remote, remote_at_start, downloads,
                   uploads, pages_fetched, exit_status, unhandled, runs>>
    /\ OnlyMain

\* phish_df = pd.DataFrame(data); exit 0 if it is empty
MainConvert ==
    /\ pc = "convert"
    /\ phish_df' = data
    /\ IF data = <<>>
       THEN Exits(0, "none")
       ELSE pc' = "filter" /\ UNCHANGED <<exit_status, unhandled>>
    /\ UNCHANGED <<attempt, attempts, sleeps, data, data_attempt, html_contents,
                   row_parses, files, df_existing, remote, remote_at_start, downloads,
                   uploads, pages_fetched, runs>>
    /\ OnlyMain

\* the filter to today's verified phishing sites; exit 0 if none is left
MainDateFilter ==
    /\ pc = "filter"
    /\ phish_df' = DateFiltered(phish_df)
    /\ IF DateFiltered(phish_df) = <<>>
       THEN Exits(0, "none")
       ELSE pc' = "fetch" /\ UNCHANGED <<exit_status, unhandled>>
    /\ UNCHANGED <<attempt, attempts, sleeps, data, data_attempt, html_contents,
                   row_parses, files, df_existing, remote, remote_at_start, downloads,
                   uploads, pages_fetched, runs>>
    /\ OnlyMain

\* html_contents = [fetch_html(url) for url in phish_df['url']], one URL
MainFetchHtml ==
    /\ pc = "fetch" /\ Len(html_contents) < Len(phish_df)
    /\ \E h \in FetchedPages : html_contents' = Append(html_contents, h)
    /\ pages_fetched' = pages_fetched + 1
    /\ UNCHANGED <<pc, attempt, attempts, sleeps, data, data_attempt, phish_df,
                   row_parses, files, df_existing, remote, remote_at_start, downloads,
                   uploads, exit_status, unhandled, runs>>
    /\ OnlyMain

\* the columns of the fetch are set and the invalid sites filtered out
MainFilterInvalid ==
    /\ pc = "fetch" /\ Len(html_contents) = Len(phish_df)
    /\ phish_df' = Filter([i \in 1..Len(phish_df) |->
                              Fetched(phish_df[i], html_contents[i])], IsValidSite)
    /\ pc' = "extract"
    /\ UNCHANGED <<attempt, attempts, sleeps, data, data_attempt, html_contents,
                   row_parses, files, df_existing, remote, remote_at_start, downloads,
                   uploads, pages_fetched, exit_status, unhandled, runs>>
    /\ OnlyMain

\* extract_texts and extract_heuristics are applied to every row; an exception of
\* either reaches the guard of __main__
MainExtract ==
    /\ pc = "extract"
    /\ row_parses' = [i \in 1..Len(phish_df) |->
                        extract_texts(phish_df[i].html_content).parses
                        + extract_heuristics(phish_df[i].url,
                                             phish_df[i].html_content).parses]
    /\ LET raising == {i \in 1..Len(phish_df) :
                          extract_heuristics(phish_df[i].url,
                                             phish_df[i].html_content).exc # "none"}
       IN  IF raising # {}
           THEN /\ Exits(0, "ValueError")
                /\ UNCHANGED phish_df
           ELSE /\ phish_df' = [i \in 1..Len(phish_df) |-> OutputRow(phish_df[i])]
                /\ pc' = "save"
                /\ UNCHANGED <<exit_status, unhandled>>
    /\ UNCHANGED <<attempt, attempts, sleeps, data, data_attempt, html_contents, files,
                   df_existing, remote, remote_at_start, downloads, uploads,
                   pages_fetched, runs>>
    /\ OnlyMain

\* phish_df.to_parquet("new_phish.parquet")
MainSaveNew ==
    /\ pc = "save"
    /\ files' = files \cup {"new_phish.parquet"}
    /\ pc' = "download"
    /\ UNCHANGED <<attempt, attempts, sleeps, data, data_attempt, phish_df,
                   html_contents, row_parses, df_existing, remote, remote_at_start,
                   downloads, uploads, pages_fetched, exit_status, unhandled, runs>>
    /\ OnlyMain

\* hf_hub_download and pd.read_parquet succeed
MainDownload ==
    /\ pc = "download"
    /\ downloads' = downloads + 1
    /\ df_existing' = remote
    /\ pc' = "merge"
    /\ UNCHANGED <<attempt, attempts, sleeps, data, data_attempt, phish_df,
                   html_contents, row_parses, files, remote, remote_at_start, uploads,
                   pages_fetched, exit_status, unhandled, runs>>
    /\ OnlyMain

\* hf_hub_download or pd.read_parquet raises: df_existing = pd.DataFrame()
MainDownloadFails ==
    /\ pc = "download"
    /\ downloads' = downloads + 1
    /\ df_existing' = <<>>
    /\ pc' = "merge"
    /\ UNCHANGED <<attempt, attempts, sleeps, data, data_attempt, phish_df,
                   html_contents, row_parses, files, remote, remote_at_start, uploads,
                   pages_fetched, exit_status, unhandled, runs>>
    /\ OnlyMain

\* df_combined is written to legit.parquet and uploaded
MainUpload ==
    /\ pc = "merge"
    /\ files' = files \cup {"legit.parquet"}
    /\ uploads' = uploads + 1
    /\ remote' = Combined(df_existing, phish_df)
    /\ Exits(0, "none")
    /\ UNCHANGED <<attempt, attempts, sleeps, data, data_attempt, phish_df,
                   html_contents, row_parses, df_existing, remote_at_start, downloads,
                   pages_fetched, runs>>
    /\ OnlyMain

\* login or upload_file raises, after legit.parquet was written
MainUploadFails ==
    /\ pc = "merge"
    /\ files' = files \cup {"legit.parquet"}
    /\ Exits(0, "HfHubHTTPError")
    /\ UNCHANGED <<attempt, attempts, sleeps, data, data_attempt, phish_df,
                   html_contents, row_parses, df_existing, remote, remote_at_start,
                   downloads, uploads, pages_fetched, runs>>
    /\ OnlyMain

\* the next run of the script, against the dataset the runs before left
MainRunsAgain ==
    /\ pc = "exited" /\ runs < MaxRuns
    /\ runs' = runs + 1
    /\ pc' = "feed"
    /\ attempt' = 0
    /\ attempts' = 0
    /\ sleeps' = 0
    /\ data' = <<>>
    /\ data_attempt' = -1
    /\ phish_df' = <<>>
    /\ html_contents' = <<>>
    /\ row_parses' = <<>>
    /\ files' = {}
    /\ df_existing' = <<>>
    /\ remote_at_start' = remote
    /\ downloads' = 0
    /\ uploads' = 0
    /\ pages_fetched' = 0
    /\ exit_status' = -1
    /\ unhandled' = "none"
    /\ UNCHANGED remote
    /\ OnlyMain

MainNext ==
    \/ MainFeedSucceeds
    \/ MainFeedFails
    \/ MainSleepEnds
    \/ MainConvert
    \/ MainDateFilter
    \/ MainFetchHtml
    \/ MainFilterInvalid
    \/ MainExtract
    \/ MainSaveNew
    \/ MainDownload
    \/ MainDownloadFails
    \/ MainUpload
    \/ MainUploadFails
    \/ MainRunsAgain

InitMain == MainInit /\ FetchIdle /\ ExtractIdle

SpecMain == InitMain /\ [][MainNext]_vars

(***************************************************************************)
(* The claims.                                                             *)
(***************************************************************************)

\* C1 (SpecFetch): a response streamed without a Content-Length header stops
\* accumulating once the byte count has crossed the ceiling, and what
\* utils.fetch_html returns is null or content of at most Ceiling bytes.
C1_StreamedContentWithinCeiling ==
    /\ content.len > Ceiling => fetch_pc = "done"
    /\ (/\ fetch_impl = "utils" /\ fetch_pc = "done"
        /\ response # NoResponse /\ IsNone(response.content_length)
        /\ fetch_result.kind = "returned" /\ ~IsNone(fetch_result.html))
       => Get(fetch_result.html).chars <= Ceiling

\* C2 (SpecFetch): when the response carries a Content-Length above the ceiling,
\* utils.fetch_html returns null and no body chunk is ever read.
C2_LargeContentLengthAborts ==
    (fetch_impl = "utils" /\ ContentLengthTooLarge(response))
    => /\ content = EmptyContent
       /\ fetch_pc \notin {"stream", "stream_end"}
       /\ fetch_pc = "done" => fetch_result = Returned(None)

\* the part of C2 that no exception can spoil: with a Content-Length above the
\* ceiling no body chunk is read, and a fetch that returns returns null
LargeContentLengthNeverReadsBody ==
    (fetch_impl = "utils" /\ ContentLengthTooLarge(response))
    => /\ content = EmptyContent
       /\ fetch_pc \notin {"stream", "stream_end"}
       /\ fetch_result.kind = "returned" => fetch_result = Returned(None)

\* C3 (SpecFetch): a fetch that fails in any way (request error, non-success
\* status, too many redirects, timeout, oversized content) returns null and
\* raises nothing, in utils.fetch_html and in main.fetch_html.
C3_FailureReturnsNull ==
    (fetch_pc = "done" /\ fetch_event # "ok") => fetch_result = Returned(None)

\* the results of the batch that are non-null, not the canonical empty page and
\* longer than the threshold
PassingResults ==
    {i \in 1..Len(html_contents) :
        IF IsNone(html_contents[i]) THEN FALSE
        ELSE /\ html_contents[i] # Some(CanonicalEmptyPage)
             /\ Get(html_contents[i]).chars > MinHtmlLength}

\* C4 (SpecMain): the rows main() keeps after the fetch are exactly the results
\* that are non-null, not the canonical empty page and longer than 6000; the rows
\* that go on to be saved are as many.
C4_QualityFilter ==
    /\ pc = "extract" =>
          /\ {phish_df[i].idx : i \in 1..Len(phish_df)} = PassingResults
          /\ \A i \in 1..Len(phish_df) :
                /\ phish_df[i].html_content = html_contents[phish_df[i].idx]
                /\ phish_df[i].url = DateFiltered(data)[phish_df[i].idx].url
          /\ \A i, j \in 1..Len(phish_df) : i < j => phish_df[i].idx < phish_df[j].idx
    /\ pc \in {"save", "download", "merge"} => Len(phish_df) = Cardinality(PassingResults)

\* a batch of two results, one of exactly 6000 characters, of which one is kept
C4_Witness ==
    /\ pc = "extract"
    /\ Len(html_contents) = 2
    /\ Len(phish_df) = 1
    /\ \E i \in 1..2 : IF IsNone(html_contents[i]) THEN FALSE
                       ELSE Get(html_contents[i]).chars = MinHtmlLength

\* C5 (SpecMain): the feed fetch makes at most max_retries attempts, stops at the
\* first success and goes on with its data, sleeps only between a failed attempt
\* and the next one, and after max_retries failures the process ends with status
\* 1, no page fetched and nothing written, downloaded or uploaded.
C5_BoundedRetry ==
    /\ attempts <= max_retries
    /\ sleeps <= max_retries - 1
    /\ pc = "sleep" => sleeps = attempts /\ data_attempt = -1
    /\ pc = "feed" => sleeps = attempts /\ data_attempt = -1 /\ attempt = attempts
    /\ data_attempt # -1 =>
          /\ attempts = data_attempt + 1
          /\ sleeps = data_attempt
          /\ exit_status # 1
    /\ (attempts = max_retries /\ data_attempt = -1) => (pc = "exited" /\ exit_status = 1)
    /\ exit_status = 1 =>
          /\ pc = "exited"
          /\ attempts = max_retries /\ data_attempt = -1
          /\ sleeps = max_retries - 1
          /\ pages_fetched = 0 /\ files = {} /\ downloads = 0 /\ uploads = 0
          /\ remote = remote_at_start

\* every attempt has failed and the process has ended with status 1
C5_Witness == pc = "exited" /\ exit_status = 1 /\ attempts = max_retries

\* C6 (SpecMain): after a merge no two rows of the persisted dataset agree on all
\* column values, so that merging the same new rows again changes nothing.
C6_MergeIdempotent ==
    \A i, j \in 1..Len(remote) : i # j => remote[i] # remote[j]

HtmlCountFields ==
    {"num_forms", "num_inputs", "num_links", "num_password_inputs",
     "num_hidden_inputs", "num_onclick_events", "num_hidden_elements",
     "num_inline_scripts", "external_js_count", "external_iframe_count",
     "num_external_domains"}
HtmlFlagFields ==
    {"has_iframe", "has_zero_sized_iframe", "suspicious_form_action",
     "has_script_eval", "has_network_js", "has_base64_in_js"}

\* C7 (SpecExtract): utils.extract_features returns, for every URL and every html,
\* a record of the same 12 + 17 fields; for html that is null, blank or (with
\* skip_dom_if_large) above the ceiling the text is "" and every HTML-derived
\* field is 0 or false.
C7_UniformSchema ==
    (extract_impl = "utils" /\ extract_pc = "done") =>
        /\ extract_exc = "none"
        /\ DOMAIN features = UrlFields \cup HtmlFields
        /\ Cardinality(UrlFields) = 12 /\ Cardinality(HtmlFields) = 17
        /\ (IF IsNone(html) THEN TRUE
            ELSE Get(html).blank \/ (skip_dom_if_large /\ Get(html).chars > Ceiling))
           => /\ visible_text = <<>>
              /\ \A f \in HtmlCountFields : features[f] = 0
              /\ \A f \in HtmlFlagFields : features[f] = FALSE

\* the part of C7 that holds of every call that returns
ReturnedRecordsShareSchema ==
    (extract_impl = "utils" /\ extract_pc = "done" /\ extract_exc = "none") =>
        /\ DOMAIN features = UrlFields \cup HtmlFields
        /\ (IF IsNone(html) THEN TRUE
            ELSE Get(html).blank \/ (skip_dom_if_large /\ Get(html).chars > Ceiling))
           => /\ visible_text = <<>>
              /\ \A f \in HtmlCountFields : features[f] = 0
              /\ \A f \in HtmlFlagFields : features[f] = FALSE

\* C8 (SpecExtract): no extraction raises because of a malformed URL, be it the
\* page URL or an attribute value of the HTML; url_length is still computed.
C8_MalformedUrlNeverRaises ==
    extract_pc = "done" =>
        /\ extract_exc = "none"
        /\ "url_length" \in DOMAIN features
        /\ features.url_length = StrLen(url)

\* C9 (SpecExtract): a page's HTML is parsed exactly once, in
\* utils.extract_features and in the extraction step of main(): never twice, and
\* once whenever features were derived from it.
C9_ParsedOnce ==
    /\ parses <= 1
    /\ (extract_pc = "done" /\ soup # None) => parses = 1

\* whether nothing of the feed is verified, online and of today
NothingForToday(feed) ==
    \A i \in 1..Len(feed) :
        ~(/\ feed[i].verified = "yes"
          /\ feed[i].online = "yes"
          /\ feed[i].verification_time[1] = Today)

\* C10 (SpecMain): when the feed is empty or holds nothing verified, online and of
\* today, the run ends with status 0, having fetched no page, written no file and
\* neither downloaded nor uploaded the remote dataset.
C10_EmptyRunExitsCleanly ==
    (data_attempt # -1 /\ NothingForToday(data)) =>
        /\ pc \in {"convert", "filter", "exited"}
        /\ pc = "exited" => exit_status = 0 /\ unhandled = "none"
        /\ pages_fetched = 0 /\ files = {} /\ downloads = 0 /\ uploads = 0
        /\ html_contents = <<>>
        /\ remote = remote_at_start

\* a non-empty feed with nothing for today, and the run has ended
C10_Witness ==
    /\ pc = "exited" /\ exit_status = 0
    /\ data_attempt # -1 /\ data # <<>> /\ NothingForToday(data)

\* how many rows of the table equal the given row
RowCount(table, row) == Cardinality({i \in 1..Len(table) : table[i] = row})

\* C11 (SpecMain): once a run has uploaded its replacement dataset, the uploaded
\* table holds every row the remote dataset held when the run started, as often
\* as it held it, whether or not the download of the existing dataset succeeded.
C11_UploadKeepsPersistedRows ==
    uploads > 0 =>
        \A i \in 1..Len(remote_at_start) :
            RowCount(remote, remote_at_start[i])
                >= RowCount(remote_at_start, remote_at_start[i])

\* what holds of the merge itself: the uploaded table is the table the run read
\* (the remote one, or the empty one after a failed download) followed by the
\* new rows
UploadAppendsToWhatWasRead ==
    uploads > 0 => remote = df_existing \o phish_df

====
